---- MODULE Spec2Model ----
(***************************************************************************)
(* A model of src/src/main.rs: a 2D Ising-like spin lattice (Field) with   *)
(* toroidal north/west adjacency, its energy function (Hamiltonian) and    *)
(* the Monte Carlo sweep (step).                                           *)
(*                                                                         *)
(* Numbers.  j, h and beta are f64 in the source.  The model draws them    *)
(* from small sets of integers, on which every f64 sum and difference of   *)
(* the source is exact.  The acceptance draw u in [0,1) and exp(x) are     *)
(* kept in fixed point, in units of 1/Scale: a draw is an integer k        *)
(* standing for k/Scale, and exp_scaled(x) is floor(Scale * e^x), so that  *)
(* k/Scale > e^x holds exactly when k > exp_scaled(x).                     *)
(*                                                                         *)
(* Vectors and arrays keep the source's indices, which start at 0.         *)
(***************************************************************************)
EXTENDS Integers, FiniteSets, Sequences, TLC

VARIABLES
    runs,         \* the runs of the program that are observed side by side
    hamiltonian,  \* the Hamiltonian {j, h} the driver builds (main.rs:160)
    field,        \* field[r]: the Field of run r
    pc,           \* "idle": between calls; "step": inside a call of step
    idx,          \* the loop variable i of step (main.rs:148)
    draw,         \* draw[r]: the value rand::random returned at the last visit,
                  \*          NoDraw when the || short-circuited (main.rs:150)
    pre,          \* pre[r]: the nodes of run r when the current call of step began
    visited       \* the site indices the current call of step has visited, in order

vars == <<runs, hamiltonian, field, pc, idx, draw, pre, visited>>

----------------------------------------------------------------------------
(* Bounds and input sets *)

\* the largest number of sites (width * height) of a lattice of Spec
MaxSites == 6

\* the largest number of sites of a lattice of SpecPair
PairMaxSites == 4

\* the fixed-point unit of the draws and of exp
Scale == 100

Couplings == {-1, 0, 1}
FieldStrengths == {-1, 0, 1}
Betas == {-1, 0, 1}

\* the values rand::random::<f64>() may return, in units of 1/Scale: [0,1)
Draws == {0, 1, 2, 13, 14, 99}

NoDraw == -1

Dims(maxSites) ==
    {d \in (1..maxSites) \X (1..maxSites) : d[1] * d[2] <= maxSites}

----------------------------------------------------------------------------
(* Spin, Node, Vec *)

Spin == {"Up", "Down"}

VecLen(v) == Cardinality(DOMAIN v)

VecPush(v, x) ==
    [k \in 0..VecLen(v) |-> IF k < VecLen(v) THEN v[k] ELSE x]

EmptyVec == [k \in {} |-> 0]

\* Node_new with the two neighbors stored in the other order; C2 tells the
\* two apart
Node_new_swapped(sp, n, e) ==
    [state |-> sp, neighbor |-> [k \in 0..1 |-> IF k = 0 THEN e ELSE n]]

Node_new(sp, n, e) ==
    [state |-> sp, neighbor |-> [k \in 0..1 |-> IF k = 0 THEN n ELSE e]]

Node_randomize(node, b) ==
    [node EXCEPT !.state = IF b THEN "Up" ELSE "Down"]

----------------------------------------------------------------------------
(* Field *)

\* create_loop without the wrap-around of row 0 and column 0; C1 tells the
\* two apart
RECURSIVE create_loop_nowrap(_, _, _, _, _)
create_loop_nowrap(ns, width, height, h, w) ==
    IF h >= height THEN ns
    ELSE IF w >= width THEN create_loop_nowrap(ns, width, height, h + 1, 0)
    ELSE LET h_prev == h - 1
             w_prev == w - 1
         IN  create_loop_nowrap(VecPush(ns, Node_new("Up",
                                                     width * h_prev + w,
                                                     width * h + w_prev)),
                                width, height, h, w + 1)

RECURSIVE create_loop(_, _, _, _, _)
create_loop(ns, width, height, h, w) ==
    IF h >= height THEN ns
    ELSE IF w >= width THEN create_loop(ns, width, height, h + 1, 0)
    ELSE LET h_prev == IF h = 0 THEN height - 1 ELSE h - 1
             w_prev == IF w = 0 THEN width - 1 ELSE w - 1
         IN  create_loop(VecPush(ns, Node_new("Up",
                                              width * h_prev + w,
                                              width * h + w_prev)),
                         width, height, h, w + 1)

Field_create(width, height, beta) ==
    [width  |-> width,
     height |-> height,
     beta   |-> beta,
     nodes  |-> create_loop(EmptyVec, width, height, 0, 0)]

\* bits[i] is the value rng.gen::<bool>() returns for node i
Field_randomize(f, bits) ==
    [f EXCEPT !.nodes =
        [i \in DOMAIN f.nodes |-> Node_randomize(f.nodes[i], bits[i])]]

----------------------------------------------------------------------------
(* Hamiltonian *)

RECURSIVE energy_node_loop(_, _, _, _, _)
energy_node_loop(ham, node, f, i, energy) ==
    IF i >= VecLen(node.neighbor) THEN energy
    ELSE LET nidx == node.neighbor[i]
         IN  energy_node_loop(ham, node, f, i + 1,
                 IF node.state = f.nodes[nidx].state
                 THEN energy - ham.j ELSE energy)

\* calc_energy_node with a mismatched bond adding +j (the energy -j*s*s' of
\* the textbook Ising model) in place of 0; C6 tells the two apart
calc_energy_node_ising(ham, i, f) ==
    LET node == f.nodes[i]
        fterm == IF node.state = "Up" THEN -ham.h ELSE ham.h
        same == {k \in 0..1 : f.nodes[node.neighbor[k]].state = node.state}
    IN  fterm - ham.j * Cardinality(same) + ham.j * (2 - Cardinality(same))

calc_energy_node(ham, i, f) ==
    LET node == f.nodes[i]
        energy == IF node.state = "Up" THEN -ham.h ELSE ham.h
    IN  energy_node_loop(ham, node, f, 0, energy)

RECURSIVE energy_loop(_, _, _, _)
energy_loop(ham, f, i, energy) ==
    IF i >= VecLen(f.nodes) THEN energy
    ELSE energy_loop(ham, f, i + 1, energy + calc_energy_node(ham, i, f))

\* calc_energy with the loop starting at site 1; C3 tells the two apart
calc_energy_skip(ham, f) == energy_loop(ham, f, 1, 0)

calc_energy(ham, f) == energy_loop(ham, f, 0, 0)

\* the pair <<energy_prev, energy_next>> after the loop of main.rs:136-142
RECURSIVE energy_diff_loop(_, _, _, _, _, _)
energy_diff_loop(ham, i, f, k, energy_prev, energy_next) ==
    IF k >= VecLen(f.nodes[i].neighbor) THEN <<energy_prev, energy_next>>
    ELSE IF f.nodes[i].state = f.nodes[f.nodes[i].neighbor[k]].state
         THEN energy_diff_loop(ham, i, f, k + 1, energy_prev - ham.j, energy_next)
         ELSE energy_diff_loop(ham, i, f, k + 1, energy_prev, energy_next - ham.j)

\* calc_energy_diff_node returning energy_next - energy_prev; C10 tells the
\* two apart
calc_energy_diff_node_swapped(ham, i, f) ==
    LET energy_prev == IF f.nodes[i].state = "Up" THEN -ham.h ELSE ham.h
        energy_next == -energy_prev
        e == energy_diff_loop(ham, i, f, 0, energy_prev, energy_next)
    IN  e[2] - e[1]

calc_energy_diff_node(ham, i, f) ==
    LET energy_prev == IF f.nodes[i].state = "Up" THEN -ham.h ELSE ham.h
        energy_next == -energy_prev
        e == energy_diff_loop(ham, i, f, 0, energy_prev, energy_next)
    IN  e[1] - e[2]

----------------------------------------------------------------------------
(* step *)

\* floor(Scale * e^x)
exp_scaled(x) ==
    IF x <= -5 THEN 0
    ELSE CASE x = -4 -> 1
           [] x = -3 -> 4
           [] x = -2 -> 13
           [] x = -1 -> 36
           [] x = 0  -> 100
           [] x = 1  -> 271
           [] x = 2  -> 738
           [] x = 3  -> 2008
           [] x = 4  -> 5459
           [] x = 5  -> 14841
           [] x = 6  -> 40342
           [] x = 7  -> 109663
           [] x = 8  -> 298095

toggle(sp) == IF sp = "Up" THEN "Down" ELSE "Up"

\* accept with the comparison of the textbook Metropolis rule, u < exp(..);
\* C9 tells the two apart
accept_textbook(denergy, beta, u) ==
    denergy <= 0 \/ u < exp_scaled((-1) * beta * denergy)

\* the condition of main.rs:150, u being the value rand::random returns
accept(denergy, beta, u) ==
    denergy <= 0 \/ u > exp_scaled((-1) * beta * denergy)

\* the body of the loop of step for site i (main.rs:149-155)
step_visit(ham, f, i, u) ==
    LET denergy == calc_energy_diff_node(ham, i, f)
    IN  IF accept(denergy, f.beta, u)
        THEN [f EXCEPT !.nodes[i].state = toggle(f.nodes[i].state)]
        ELSE f

\* the value the visit of site i reads from rand::random: none when
\* denergy <= 0, for || does not evaluate its right operand then
step_draw(ham, f, i, u) ==
    IF calc_energy_diff_node(ham, i, f) <= 0 THEN NoDraw ELSE u

----------------------------------------------------------------------------
(* The program *)

InitOf(rs, dims, hams, betas) ==
    /\ runs = rs
    /\ \E d \in dims, b \in betas :
          field = [r \in rs |-> Field_create(d[1], d[2], b)]
    /\ hamiltonian \in hams
    /\ pc = "idle"
    /\ idx = 0
    /\ draw = [r \in rs |-> NoDraw]
    /\ pre = [r \in rs |-> field[r].nodes]
    /\ visited = <<>>

Hamiltonians == [j : Couplings, h : FieldStrengths]

Init == InitOf({1}, Dims(MaxSites), Hamiltonians, Betas)

\* two runs of the driver's configuration: Hamiltonian{j: 1.0, h: 0.0} and
\* beta 1.0 (main.rs:160-161)
PairInit == InitOf({1, 2}, Dims(PairMaxSites), {[j |-> 1, h |-> 0]}, {1})

\* field.randomize(&mut rng): every run is given the same values by its rng
Randomize ==
    /\ pc = "idle"
    /\ \E bits \in [DOMAIN field[1].nodes -> BOOLEAN] :
          field' = [r \in runs |-> Field_randomize(field[r], bits)]
    /\ pre' = [r \in runs |-> field'[r].nodes]
    /\ UNCHANGED <<runs, hamiltonian, pc, idx, draw, visited>>

\* step(&mut field, &hamiltonian, &mut rng) is called
StepBegin ==
    /\ pc = "idle"
    /\ pc' = "step"
    /\ idx' = 0
    /\ pre' = [r \in runs |-> field[r].nodes]
    /\ visited' = <<>>
    /\ draw' = [r \in runs |-> NoDraw]
    /\ UNCHANGED <<runs, hamiltonian, field>>

\* StepVisit deciding every visit on the lattice as it was when the sweep
\* began (a synchronous update); C7 tells the two apart
StepVisit_synchronous ==
    /\ pc = "step"
    /\ idx < VecLen(field[1].nodes)
    /\ \E u \in [runs -> Draws] :
          /\ field' = [r \in runs |->
                IF accept(calc_energy_diff_node(hamiltonian, idx,
                                                [field[r] EXCEPT !.nodes = pre[r]]),
                          field[r].beta, u[r])
                THEN [field[r] EXCEPT !.nodes[idx].state =
                                          toggle(field[r].nodes[idx].state)]
                ELSE field[r]]
          /\ draw' = [r \in runs |->
                step_draw(hamiltonian, [field[r] EXCEPT !.nodes = pre[r]],
                          idx, u[r])]
    /\ visited' = Append(visited, idx)
    /\ idx' = idx + 1
    /\ UNCHANGED <<runs, hamiltonian, pc, pre>>

\* one iteration of the loop of step.  The draw comes from rand::random, the
\* thread's own generator, and not from the rng passed to step: each run
\* gets a value of its own.
StepVisit ==
    /\ pc = "step"
    /\ idx < VecLen(field[1].nodes)
    /\ \E u \in [runs -> Draws] :
          /\ field' = [r \in runs |-> step_visit(hamiltonian, field[r], idx, u[r])]
          /\ draw' = [r \in runs |-> step_draw(hamiltonian, field[r], idx, u[r])]
    /\ visited' = Append(visited, idx)
    /\ idx' = idx + 1
    /\ UNCHANGED <<runs, hamiltonian, pc, pre>>

\* the loop of step is over and step returns
StepEnd ==
    /\ pc = "step"
    /\ idx >= VecLen(field[1].nodes)
    /\ pc' = "idle"
    /\ idx' = 0
    /\ pre' = [r \in runs |-> field[r].nodes]
    /\ visited' = <<>>
    /\ draw' = [r \in runs |-> NoDraw]
    /\ UNCHANGED <<runs, hamiltonian, field>>

Next == Randomize \/ StepBegin \/ StepVisit \/ StepEnd

Spec == Init /\ [][Next]_vars

SpecPair == PairInit /\ [][Next]_vars

----------------------------------------------------------------------------
(* Definitions the properties share *)

F == field[1]

NumSites(f) == f.width * f.height

Sites(f) == 0..(NumSites(f) - 1)

AllUp(f) == \A i \in DOMAIN f.nodes : f.nodes[i].state = "Up"

Uniform(ns) == \A i, k \in DOMAIN ns : ns[i].state = ns[k].state

\* f with the spin of site i alone toggled
Flipped(f, i) == [f EXCEPT !.nodes[i].state = toggle(f.nodes[i].state)]

\* f with the spin of site s alone set to Down
SetDown(f, s) == [f EXCEPT !.nodes[s].state = "Down"]

\* the stored bonds <<i, k>> (bond k of site i) that touch site s
BondsTouching(f, s) ==
    {b \in (DOMAIN f.nodes) \X (0..1) : b[1] = s \/ f.nodes[b[1]].neighbor[b[2]] = s}

Mismatched(f, b) ==
    f.nodes[b[1]].state # f.nodes[f.nodes[b[1]].neighbor[b[2]]].state

InVisit == pc = "step" /\ idx < VecLen(F.nodes)

SweepDone == pc = "step" /\ idx >= VecLen(F.nodes)

\* the visit of site idx of run r toggled the site, in the step from the
\* current state to the next one
Toggles(r) ==
    field'[r].nodes[idx].state = toggle(field[r].nodes[idx].state)

\* the visit of site idx of run r left every other site, and all neighbor
\* lists, as they were
OthersKept(r) ==
    /\ DOMAIN field'[r].nodes = DOMAIN field[r].nodes
    /\ \A k \in DOMAIN field[r].nodes :
          /\ field'[r].nodes[k].neighbor = field[r].nodes[k].neighbor
          /\ k # idx => field'[r].nodes[k].state = field[r].nodes[k].state

----------------------------------------------------------------------------
(* C1 *)

ShapeOk(f) ==
    /\ f.width >= 1 /\ f.height >= 1
    /\ DOMAIN f.nodes = Sites(f)
    /\ VecLen(f.nodes) = f.width * f.height
    /\ \A i \in DOMAIN f.nodes :
          /\ DOMAIN f.nodes[i].neighbor = 0..1
          /\ \A k \in 0..1 : f.nodes[i].neighbor[k] \in Sites(f)

ShapeKept(r) ==
    /\ field'[r].width = field[r].width
    /\ field'[r].height = field[r].height
    /\ DOMAIN field'[r].nodes = DOMAIN field[r].nodes
    /\ \A i \in DOMAIN field[r].nodes :
          field'[r].nodes[i].neighbor = field[r].nodes[i].neighbor

\* C1: the lattice Field::create builds has exactly width*height sites, each
\* with exactly 2 neighbor indices in [0, width*height), and this is so in
\* every state reached by randomize and step calls: no step of the program
\* changes the number of sites or a neighbor index.
C1_ShapeInvariant ==
    /\ [](\A r \in runs : ShapeOk(field[r]))
    /\ [][\A r \in runs : ShapeKept(r)]_vars

\* a sweep over a 3 by 2 lattice has visited every site, flipped some of them
\* and left others
C1_Witness ==
    /\ SweepDone
    /\ F.width = 3 /\ F.height = 2
    /\ \E i, k \in DOMAIN F.nodes :
          /\ F.nodes[i].state # pre[1][i].state
          /\ F.nodes[k].state = pre[1][k].state
    /\ ShapeOk(F)

----------------------------------------------------------------------------
(* C2 *)

NorthOf(f, row, col) == ((row - 1 + f.height) % f.height) * f.width + col

WestOf(f, row, col) == row * f.width + ((col - 1 + f.width) % f.width)

\* C2: the site at (row, col), stored at index row*width + col, has the
\* neighbor list [north, west] with wrap-around; with width 1 the west
\* neighbor of a site is the site itself, with height 1 the north neighbor
\* is; construction yields a complete lattice (it does not fail).
C2_ToroidalAdjacency ==
    \A r \in runs :
       LET f == field[r] IN
       /\ DOMAIN f.nodes = Sites(f)
       /\ \A row \in 0..(f.height - 1), col \in 0..(f.width - 1) :
             LET i == row * f.width + col IN
             /\ f.nodes[i].neighbor[0] = NorthOf(f, row, col)
             /\ f.nodes[i].neighbor[1] = WestOf(f, row, col)
             /\ f.width = 1 => f.nodes[i].neighbor[1] = i
             /\ f.height = 1 => f.nodes[i].neighbor[0] = i

\* a lattice of width 1 and height 3 was built: site 0 has the last row to
\* its north and itself to its west
C2_Witness ==
    /\ F.width = 1 /\ F.height = 3
    /\ F.nodes[0].neighbor[0] = 2
    /\ F.nodes[0].neighbor[1] = 0
    /\ AllUp(F)

----------------------------------------------------------------------------
(* C3 *)

\* C3 as stated: on the all-Up lattice with h = 0, calc_energy is
\* -j * (width*height).
C3_Original ==
    (AllUp(F) /\ hamiltonian.h = 0)
        => calc_energy(hamiltonian, F) = (-hamiltonian.j) * NumSites(F)

\* C3 as amended: on the all-Up lattice with h = 0, calc_energy is
\* -2 * j * (width*height), each site adding -j for each of its 2 stored
\* bonds; it is -8 for the 2 by 2 lattice with j = 1.
C3_AllUpEnergy ==
    (AllUp(F) /\ hamiltonian.h = 0)
        => calc_energy(hamiltonian, F) = (-2) * hamiltonian.j * NumSites(F)

\* the 2 by 2 all-Up lattice with j = 1, h = 0 has total energy -8
C3_Witness ==
    /\ AllUp(F)
    /\ F.width = 2 /\ F.height = 2
    /\ hamiltonian = [j |-> 1, h |-> 0]
    /\ calc_energy(hamiltonian, F) = -8

----------------------------------------------------------------------------
(* C4 *)

\* C4: for every site i, calc_energy_diff_node(i) is the energy of site i
\* with its spin toggled minus the energy of site i as it is.
C4_DiffIsFlippedMinusCurrent ==
    \A i \in DOMAIN F.nodes :
       calc_energy_diff_node(hamiltonian, i, F)
          = calc_energy_node(hamiltonian, i, Flipped(F, i))
              - calc_energy_node(hamiltonian, i, F)

----------------------------------------------------------------------------
(* C5 *)

\* C5: two runs with the same dimensions, beta, j, h and the same values
\* from the generator passed to randomize and step hold the same spins after
\* every sweep.
C5_SameSeedSameSpins ==
    pc = "idle" => \A r1, r2 \in runs : field[r1] = field[r2]

----------------------------------------------------------------------------
(* C6 *)

Scenario2x2 ==
    /\ F = Field_create(2, 2, 1)
    /\ hamiltonian = [j |-> 1, h |-> 0]

EnergyRise(s) ==
    calc_energy(hamiltonian, SetDown(F, s)) - calc_energy(hamiltonian, F)

NumMismatched(s) ==
    Cardinality({b \in BondsTouching(F, s) : Mismatched(SetDown(F, s), b)})

\* C6 as stated: on the 2 by 2 all-Up lattice with j = 1, h = 0, setting
\* site s alone to Down raises calc_energy by 2*j*m, m the number of
\* mismatched stored bonds touching s.
C6_Original ==
    Scenario2x2 =>
        \A s \in DOMAIN F.nodes :
           EnergyRise(s) = 2 * hamiltonian.j * NumMismatched(s)

\* C6 as amended: the rise is j*m (a matching bond adds -j and a mismatched
\* one adds 0), which is 4 for every site s, all 4 stored bonds touching s
\* being mismatched.
C6_SetDownEnergy ==
    Scenario2x2 =>
        \A s \in DOMAIN F.nodes :
           /\ EnergyRise(s) = hamiltonian.j * NumMismatched(s)
           /\ NumMismatched(s) = 4
           /\ calc_energy(hamiltonian, SetDown(F, s)) = -4

\* the scenario's lattice, where site 3 set to Down gives energy -4
C6_Witness ==
    /\ Scenario2x2
    /\ calc_energy(hamiltonian, F) = -8
    /\ calc_energy(hamiltonian, SetDown(F, 3)) = -4

----------------------------------------------------------------------------
(* C7 *)

\* the visit of site idx of run r decides as C7 says, on the lattice as the
\* earlier visits of the sweep left it
VisitDecides(r) ==
    LET f == field[r]
        delta == calc_energy_diff_node(hamiltonian, idx, f)
    IN  /\ delta <= 0 => draw'[r] = NoDraw
        /\ delta > 0 => draw'[r] \in 0..(Scale - 1)
        /\ Toggles(r) <=>
              (delta <= 0 \/ draw'[r] > exp_scaled((-1) * f.beta * delta))
        /\ ~Toggles(r) => field'[r].nodes[idx].state = f.nodes[idx].state

AscendingTo(n) == [k \in 1..n |-> k - 1]

\* C7: a call of step visits the sites 0 .. width*height-1 once each in
\* ascending order; the visit of site i toggles it exactly when delta <= 0
\* or the draw u exceeds exp(-beta*delta), delta being
\* calc_energy_diff_node(i) on the lattice as mutated by the visits before
\* it in the sweep; the visit changes no other site.
C7_SequentialSweep ==
    [][/\ (pc = "idle" /\ pc' = "step") => (idx' = 0 /\ visited' = <<>>)
       /\ InVisit =>
             /\ pc' = "step" /\ idx' = idx + 1
             /\ visited' = Append(visited, idx)
             /\ visited' = AscendingTo(idx + 1)
             /\ \A r \in runs : VisitDecides(r) /\ OthersKept(r)
       /\ SweepDone =>
             /\ pc' = "idle"
             /\ visited = AscendingTo(VecLen(F.nodes))
             /\ field' = field
      ]_vars

\* a site was flipped on a draw, next to a neighbor the same sweep had
\* already flipped
C7_Witness ==
    /\ pc = "step" /\ idx >= 2
    /\ draw[1] # NoDraw
    /\ F.nodes[idx - 1].state # pre[1][idx - 1].state
    /\ \E k \in 0..1 :
          LET nb == F.nodes[idx - 1].neighbor[k] IN
          nb < idx - 1 /\ F.nodes[nb].state # pre[1][nb].state

----------------------------------------------------------------------------
(* C8 *)

\* C8: whenever calc_energy_diff_node(i) is negative, the energy of site i
\* after toggling site i is strictly smaller than before.
C8_NegativeMeansLower ==
    \A i \in DOMAIN F.nodes :
       calc_energy_diff_node(hamiltonian, i, F) < 0
          => calc_energy_node(hamiltonian, i, Flipped(F, i))
                < calc_energy_node(hamiltonian, i, F)

----------------------------------------------------------------------------
(* C9 *)

\* C9 as stated: with beta negative, every visit of step flips its site.
C9_Original ==
    [][(InVisit /\ F.beta < 0) => \A r \in runs : Toggles(r)]_vars

\* C9 as amended: with beta negative, a visit flips its site exactly when
\* delta <= 0; where delta > 0, exp(-beta*delta) exceeds 1 and no draw in
\* [0,1) exceeds it, so the site is never flipped, whatever the draw; every
\* lookup of the visit is within the lattice (no error).
C9_NegativeBeta ==
    [][(InVisit /\ F.beta < 0) =>
          \A r \in runs :
             LET delta == calc_energy_diff_node(hamiltonian, idx, field[r]) IN
             /\ idx \in DOMAIN field[r].nodes
             /\ \A k \in 0..1 :
                   field[r].nodes[idx].neighbor[k] \in DOMAIN field[r].nodes
             /\ Toggles(r) <=> delta <= 0
             /\ delta > 0 =>
                   /\ draw'[r] \in Draws
                   /\ exp_scaled((-1) * field[r].beta * delta) > Scale
                   /\ field'[r] = field[r]
      ]_vars

\* with beta negative, a site with delta > 0 was visited with the largest
\* draw and was not flipped
C9_Witness ==
    /\ pc = "step" /\ idx >= 1
    /\ F.beta < 0
    /\ draw[1] = 99
    /\ F.nodes[idx - 1].state = pre[1][idx - 1].state
    /\ calc_energy_diff_node(hamiltonian, idx - 1, F) > 0

----------------------------------------------------------------------------
(* C10 *)

AlignedAt(f, i) ==
    \A k \in 0..1 : f.nodes[f.nodes[i].neighbor[k]].state = f.nodes[i].state

\* C10: with j > 0 and h = 0, a visit of a site whose spin equals the spins
\* of both its stored neighbors finds delta = -2j and flips the site without
\* a draw, whatever beta; so a sweep that began on a uniform lattice ends
\* with site 0 flipped, and the lattice it leaves is not the one it began on.
C10_AlignedAlwaysFlips ==
    /\ [][(InVisit /\ hamiltonian.j > 0 /\ hamiltonian.h = 0) =>
            \A r \in runs :
               AlignedAt(field[r], idx) =>
                  /\ calc_energy_diff_node(hamiltonian, idx, field[r])
                        = (-2) * hamiltonian.j
                  /\ Toggles(r)
                  /\ draw'[r] = NoDraw
         ]_vars
    /\ []((SweepDone /\ hamiltonian.j > 0 /\ hamiltonian.h = 0) =>
            \A r \in runs :
               Uniform(pre[r]) =>
                  /\ field[r].nodes[0].state # pre[r][0].state
                  /\ field[r].nodes # pre[r])

\* a sweep that began on the all-Down 2 by 3 lattice, with j > 0 and h = 0,
\* is over and site 0 is Up
C10_Witness ==
    /\ SweepDone
    /\ hamiltonian.j > 0 /\ hamiltonian.h = 0
    /\ F.width = 2 /\ F.height = 3
    /\ Uniform(pre[1]) /\ pre[1][0].state = "Down"
    /\ F.nodes[0].state = "Up"

====
